---------------------------- MODULE Spec2Model ----------------------------
(***************************************************************************)
(* Model of the e-commerce backend (backend/main.py, backend/database.py): *)
(* the relational store (users, items, carts, cart_items) with its         *)
(* uniqueness constraints, and the request handlers of the API.  A handler *)
(* is a sequence of store accesses (queries and commits); requests of      *)
(* different workers interleave between two store accesses.  Every query   *)
(* reads the latest committed state, every db.commit() is atomic.          *)
(*                                                                         *)
(* A cart_items row is written here by its (cart_id, item_id, quantity);   *)
(* its integer primary key is not.  A pending UPDATE or DELETE of a        *)
(* session addresses by primary key the row it read: once that row has     *)
(* been deleted it addresses no row, until the store gives the key to a    *)
(* row inserted later (SQLite, the default store, numbers a new row one    *)
(* more than the largest key in use), which it then addresses.             *)
(***************************************************************************)
EXTENDS Integers, FiniteSets

(***************************************************************************)
(* Bounds of the model.                                                    *)
(***************************************************************************)
\* the largest stock_quantity of an item
MaxStock == 2
\* the largest number of items of the second category in a long catalogue
MaxOther == 2

\* request slots: requests that may be in flight at the same time
Slots == {1, 2}
\* UserCreate payloads: two that can both register, one that collides with
\* the first on the email and with the second on the username
SignupForms == {<<"a", "x">>, <<"b", "y">>, <<"a", "y">>}
\* item ids of the catalogues of the two specifications
OneItem == {1}
TwoItems == {1, 2}
\* stock_quantity values an ItemCreate payload carries (schemas.py: any int)
Stocks == {-1, 0, MaxStock}
\* two positive stocks that differ
TwoStocks == {MaxStock - 1, MaxStock}
\* one UserCreate payload
OneForm == {<<"a", "x">>}
\* quantity values a CartItemCreate / CartItemUpdate payload carries
Quantities == (-1)..(MaxStock + 1)
\* price values an ItemCreate payload carries, in thousandths of the currency
\* unit (4 is 0.004): amounts that the rounding to 2 decimals changes
Prices == {4, 12}
OnePrice == {4}
\* category values an ItemCreate payload carries
Categories == {"a", "b"}
OneCategory == {"a"}
\* get_items(skip: int = 0, limit: int = 100, ...): the pagination defaults
skip == 0
limit == 100
\* item ids of a catalogue that outgrows one page of the default limit
ManyItems == 1..(limit + 1)
\* the category argument of get_items: absent (None), or one string, the
\* empty string and a category of no item included
Filters == {{}, {""}, {"a"}, {"b"}, {"c"}}

CartWriteOps == {"add_item", "update_item", "remove_item", "clear_cart"}
Errors == {"BadRequest", "NotFound", "Conflict", "Internal"}

VARIABLES users, items, carts, cart_items, reqs

vars == <<users, items, carts, cart_items, reqs>>

\* the persisted state as one value
DB == [users |-> users, items |-> items, carts |-> carts, cart_items |-> cart_items]

(***************************************************************************)
(* The store: tables, primary keys, uniqueness constraints.                *)
(***************************************************************************)
MaxOf(S) == CHOOSE x \in S : \A y \in S : y <= x

\* Integer primary key of a new row: one more than the largest key in the table.
NextId(rows) == IF rows = {} THEN 1 ELSE MaxOf({r.id : r \in rows}) + 1

\* Query(...).first(): one row of the result, or none
First(rows) == IF rows = {} THEN {} ELSE {CHOOSE r \in rows : TRUE}

\* users.email and users.username are unique
UserUnique(rows, row) ==
    \A r \in rows : r.email # row.email /\ r.username # row.username

\* carts.user_id without its unique=True
CartNotUnique(rows, row) == TRUE

\* carts.user_id is unique
CartUnique(rows, row) == \A r \in rows : r.user_id # row.user_id

\* cart_items without its UniqueConstraint
no_unique_cart_item(rows, row) == TRUE

\* UniqueConstraint('cart_id', 'item_id')
unique_cart_item(rows, row) ==
    \A r \in rows : ~(r.cart_id = row.cart_id /\ r.item_id = row.item_id)

\* db.query(Cart).filter(Cart.user_id == current_user.id).first()
CartOf(db, u) == First({c \in db.carts : c.user_id = u})

\* the line query without its cart_id filter
LineOfAnyCart(db, cid, i) == First({l \in db.cart_items : l.item_id = i})

\* db.query(CartItem).filter(cart_id == cart.id, item_id == item_id).first()
LineOf(db, cid, i) == First({l \in db.cart_items : l.cart_id = cid /\ l.item_id = i})

\* db.query(Item).filter(Item.id == item_id).first()
ItemOf(db, i) == First({it \in db.items : it.id = i})

The(S) == CHOOSE x \in S : TRUE

\* carts.updated_at: "created" while it is the default set at the insert,
\* "later" once it was assigned datetime.utcnow() after that
utcnow(t) == "later"

(***************************************************************************)
(* Requests.  pc is the handler's position; wkind/wid/wqty is the pending  *)
(* write of the session (the dirty object the next commit flushes); wrote  *)
(* is the set of tables this request has committed a change to.            *)
(***************************************************************************)
\* no cart view in the response
NoView == [cart |-> 0, user_id |-> 0, items |-> {}, total_items |-> 0, total_price |-> 0]

NoReq == [op |-> "none", pc |-> "idle", email |-> "", username |-> "", user |-> 0,
          item |-> 0, qty |-> 0, stock |-> 0, price |-> 0, category |-> "",
          wkind |-> "none", wcart |-> 0, witem |-> 0,
          wqty |-> 0, outcome |-> "none", wrote |-> {}, view |-> NoView,
          filter |-> {}, rows |-> {}, detail |-> <<>>]

NewReq(op) == [NoReq EXCEPT !.op = op, !.pc = "begin"]

\* str(e): the text of the exception the store raised
ExceptionText == "str(e)"

\* the detail of the response 500 of a handler whose store access at rq.pc raised
InternalDetail(rq) ==
    CASE rq.op = "get_items" -> <<ExceptionText>>
      [] rq.op = "get_cart" -> <<"Failed to retrieve cart">>
      [] rq.op = "add_item" -> <<"Failed to add item to cart">>
      [] rq.op = "update_item" /\ rq.pc = "view" -> <<"Failed to retrieve cart">>
      [] rq.op = "update_item" -> <<"Failed to update cart item">>
      [] rq.op = "clear_cart" -> <<"Failed to clear cart">>
      [] rq.op = "remove_item" -> <<"Failed to remove item from cart: ", ExceptionText>>
      [] OTHER -> <<"Internal Server Error">>

\* the response: what the request was, how it ended, what it had committed;
\* the session is closed, what it had not committed is dropped
Finish(rq, out) == [NoReq EXCEPT !.op = rq.op, !.pc = "done", !.outcome = out,
                                 !.email = rq.email, !.username = rq.username,
                                 !.wrote = rq.wrote, !.filter = rq.filter,
                                 !.detail = IF out = "Internal" THEN InternalDetail(rq)
                                            ELSE <<>>]

\* the response 200 that carries a cart view
Reply(rq, view) == [Finish(rq, "OK") EXCEPT !.view = view]

Res(db, rq) == [db |-> db, rq |-> rq]

\* round(total_price, 2) on an amount in thousandths: the nearest hundredth
round(x) == LET r == x % 10 IN IF r < 5 THEN x - r ELSE x - r + 10

\* db.query(CartItem, Item).join(Item, CartItem.item_id == Item.id)
\*   .filter(CartItem.cart_id == cart.id).all()
JoinedLines(db, cid) ==
    {<<ci, it>> \in db.cart_items \X db.items : ci.item_id = it.id /\ ci.cart_id = cid}

\* a line's amount rounded to 2 decimals before it is summed
LineAmountRounded(price, quantity) == round(price * quantity)

\* float(item.price) * ci.quantity
LineAmount(price, quantity) == price * quantity

\* total_items = sum(ci.quantity for ci, _ in cart_items)
RECURSIVE total_items(_)
total_items(rows) ==
    IF rows = {} THEN 0
    ELSE LET r == CHOOSE x \in rows : TRUE
         IN r[1].quantity + total_items(rows \ {r})

\* total_price = sum(float(item.price) * ci.quantity for ci, item in cart_items)
RECURSIVE total_price(_)
total_price(rows) ==
    IF rows = {} THEN 0
    ELSE LET r == CHOOSE x \in rows : TRUE
         IN LineAmount(r[2].price, r[1].quantity) + total_price(rows \ {r})

\* the cart view of the responses of get_cart, add_to_cart and update_cart_item
CartView(db, cart) ==
    LET rows == JoinedLines(db, cart.id)
    IN [cart |-> cart.id, user_id |-> cart.user_id,
        items |-> {[item_id |-> r[1].item_id, price |-> r[2].price,
                    quantity |-> r[1].quantity,
                    subtotal |-> LineAmount(r[2].price, r[1].quantity)] : r \in rows},
        total_items |-> total_items(rows),
        total_price |-> round(total_price(rows))]

\* the view get_cart returns for the cart it has just created
EmptyView(cart) ==
    [cart |-> cart.id, user_id |-> cart.user_id, items |-> {},
     total_items |-> 0, total_price |-> 0]

\* db.add(Cart(user_id=current_user.id)); db.commit()
CreateCart(db, rq, fail, next) ==
    LET row == [id |-> NextId(db.carts), user_id |-> rq.user, updated_at |-> "created"]
    IN IF fail \/ ~CartUnique(db.carts, row)
       THEN Res(db, Finish(rq, "Internal"))
       ELSE Res([db EXCEPT !.carts = @ \cup {row}],
                IF next = "done"
                THEN Finish([rq EXCEPT !.wrote = @ \cup {"carts"}], "OK")
                ELSE IF next = "view"
                THEN Reply([rq EXCEPT !.wrote = @ \cup {"carts"}], EmptyView(row))
                ELSE [rq EXCEPT !.wrote = @ \cup {"carts"}, !.pc = next])

\* the row a pending update or delete addresses (by primary key), if it still exists
Target(db, rq) == {l \in db.cart_items : l.cart_id = rq.wcart /\ l.item_id = rq.witem}

\* the session's flush of the pending write
Flush(db, rq) ==
    CASE rq.wkind = "ins" ->
           db.cart_items \cup
             {[cart_id |-> rq.wcart, item_id |-> rq.witem, quantity |-> rq.wqty]}
      [] rq.wkind = "upd" ->
           {IF l \in Target(db, rq) THEN [l EXCEPT !.quantity = rq.wqty] ELSE l
              : l \in db.cart_items}
      [] rq.wkind = "del" -> db.cart_items \ Target(db, rq)
      [] OTHER -> db.cart_items

\* what makes the flush raise: IntegrityError on insert, StaleDataError on update
FlushFails(db, rq) ==
    \/ /\ rq.wkind = "ins"
       /\ ~unique_cart_item(db.cart_items, [cart_id |-> rq.wcart, item_id |-> rq.witem])
    \/ /\ rq.wkind = "upd"
       /\ Target(db, rq) = {}

(***************************************************************************)
(* The handlers, one store access per step.                                *)
(***************************************************************************)
signup(db, rq, fail) ==
    CASE rq.pc = "begin" ->
           IF \E u \in db.users : u.email = rq.email \/ u.username = rq.username
           THEN Res(db, Finish(rq, "Conflict"))
           ELSE Res(db, [rq EXCEPT !.pc = "commit_user"])
      [] rq.pc = "commit_user" ->
           LET row == [id |-> NextId(db.users), email |-> rq.email, username |-> rq.username]
           IN IF fail \/ ~UserUnique(db.users, row)
              THEN Res(db, Finish(rq, "Internal"))
              ELSE Res([db EXCEPT !.users = @ \cup {row}],
                       [rq EXCEPT !.user = row.id, !.wrote = @ \cup {"users"},
                                  !.pc = "commit_cart"])
      [] rq.pc = "commit_cart" -> CreateCart(db, rq, fail, "done")
      [] OTHER -> Res(db, rq)

\* the category filter dropped from the query
MatchingAll(db, filter) == db.items

\* query = db.query(Item); if category: query = query.filter(Item.category == category)
Matching(db, filter) ==
    IF filter # {} /\ filter # {""}
    THEN {it \in db.items : it.category \in filter}
    ELSE db.items

\* the results of query.offset(skip).limit(limit).all() over the rows M: the
\* query has no ORDER BY, so any `limit` rows of those left after `skip`
RECURSIVE Without(_, _)
Without(M, k) ==
    IF k = 0 THEN {M} ELSE UNION {Without(M \ {x}, k - 1) : x \in M}

Pages(M) ==
    LET left == IF Cardinality(M) > skip THEN Cardinality(M) - skip ELSE 0
        n == IF left > limit THEN limit ELSE left
    IN Without(M, Cardinality(M) - n)

\* page: the rows the store returns for the query
get_items(db, rq, fail, page) ==
    IF fail
    THEN Res(db, Finish(rq, "Internal"))
    ELSE Res(db, [Finish(rq, "OK") EXCEPT !.rows = page])

create_item(db, rq, fail) ==
    IF fail
    THEN Res(db, Finish(rq, "Internal"))
    ELSE Res([db EXCEPT !.items = @ \cup {[id |-> NextId(db.items), price |-> rq.price,
                                            category |-> rq.category,
                                            stock_quantity |-> rq.stock]}],
             Finish([rq EXCEPT !.wrote = @ \cup {"items"}], "OK"))

\* the queries behind the cart view of the response
ReadView(db, rq, fail) ==
    IF fail THEN Res(db, Finish(rq, "Internal"))
    ELSE Res(db, Reply(rq, CartView(db, The(CartOf(db, rq.user)))))

\* get_cart failing for a user without a cart, as update and remove do
GetWithoutCartFails(db, rq) == Res(db, Finish(rq, "NotFound"))

\* if not cart: a cart is created and returned empty
GetWithoutCart(db, rq) == Res(db, [rq EXCEPT !.pc = "create_cart"])

get_cart(db, rq, fail) ==
    CASE rq.pc = "begin" ->
           IF CartOf(db, rq.user) = {}
           THEN GetWithoutCart(db, rq)
           ELSE ReadView(db, rq, fail)
      [] rq.pc = "create_cart" -> CreateCart(db, rq, fail, "view")
      [] OTHER -> Res(db, rq)

\* the quantity check of add_to_cart letting 0 through
AddQuantityInvalidBelowZero(q) == q < 0

\* if cart_item.quantity <= 0: "Quantity must be greater than 0"
AddQuantityInvalid(q) == q <= 0

\* if cart_item_update.quantity < 0: "Quantity cannot be negative"
UpdateQuantityInvalid(q) == q < 0

\* the requested quantity replacing the line's instead of adding to it
AddedQuantityReplaces(old, q) == q

\* new_quantity = existing_cart_item.quantity + cart_item.quantity
AddedQuantity(old, q) == old + q

\* the requested quantity added to the line's instead of replacing it
UpdatedQuantityAdds(old, q) == old + q

\* cart_item.quantity = cart_item_update.quantity
UpdatedQuantity(old, q) == q

\* add_to_cart from the item lookup to the pending write
AddCheck(db, rq) ==
    LET cart == The(CartOf(db, rq.user))
        item == ItemOf(db, rq.item)
        line == LineOf(db, cart.id, rq.item)
    IN IF item = {} THEN Finish(rq, "NotFound")
       ELSE IF The(item).stock_quantity <= 0 THEN Finish(rq, "BadRequest")
       ELSE IF line # {}
            THEN IF AddedQuantity(The(line).quantity, rq.qty) > The(item).stock_quantity
                 THEN Finish(rq, "BadRequest")
                 ELSE [rq EXCEPT !.pc = "commit", !.wkind = "upd", !.wcart = cart.id,
                                 !.witem = rq.item,
                                 !.wqty = AddedQuantity(The(line).quantity, rq.qty)]
            ELSE IF rq.qty > The(item).stock_quantity
                 THEN Finish(rq, "BadRequest")
                 ELSE [rq EXCEPT !.pc = "commit", !.wkind = "ins", !.wcart = cart.id,
                                 !.witem = rq.item, !.wqty = rq.qty]

\* db.commit() of a pending cart_items write; the cart view is read next
CommitLine(db, rq, fail) ==
    IF fail \/ FlushFails(db, rq)
    THEN Res(db, Finish(rq, "Internal"))
    ELSE Res([db EXCEPT !.cart_items = Flush(db, rq)],
             [rq EXCEPT !.wrote = @ \cup (IF rq.wkind = "none" THEN {} ELSE {"cart_items"}),
                        !.pc = "view",
                        !.item = 0, !.qty = 0,
                        !.wkind = "none", !.wcart = 0, !.witem = 0, !.wqty = 0])

add_to_cart(db, rq, fail) ==
    CASE rq.pc = "begin" ->
           IF AddQuantityInvalid(rq.qty) THEN Res(db, Finish(rq, "BadRequest"))
           ELSE IF CartOf(db, rq.user) = {}
                THEN Res(db, [rq EXCEPT !.pc = "create_cart"])
                ELSE Res(db, AddCheck(db, rq))
      [] rq.pc = "create_cart" -> CreateCart(db, rq, fail, "check")
      [] rq.pc = "check" -> Res(db, AddCheck(db, rq))
      [] rq.pc = "commit" -> CommitLine(db, rq, fail)
      [] rq.pc = "view" -> ReadView(db, rq, fail)
      [] OTHER -> Res(db, rq)

update_cart_item(db, rq, fail) ==
    CASE rq.pc = "begin" ->
           IF UpdateQuantityInvalid(rq.qty) THEN Res(db, Finish(rq, "BadRequest"))
           ELSE IF CartOf(db, rq.user) = {} THEN Res(db, Finish(rq, "NotFound"))
           ELSE LET cart == The(CartOf(db, rq.user))
                    line == LineOf(db, cart.id, rq.item)
                    item == ItemOf(db, rq.item)
                IN IF line = {} THEN Res(db, Finish(rq, "NotFound"))
                   ELSE IF item = {} THEN Res(db, Finish(rq, "NotFound"))
                   ELSE IF rq.qty > The(item).stock_quantity
                        THEN Res(db, Finish(rq, "BadRequest"))
                   ELSE IF rq.qty = 0
                        THEN Res(db, [rq EXCEPT !.pc = "commit", !.wkind = "del",
                                                !.wcart = cart.id, !.witem = rq.item])
                   ELSE IF UpdatedQuantity(The(line).quantity, rq.qty) = The(line).quantity
                        THEN Res(db, [rq EXCEPT !.pc = "commit"])
                        ELSE Res(db, [rq EXCEPT !.pc = "commit", !.wkind = "upd",
                                                !.wcart = cart.id, !.witem = rq.item,
                                                !.wqty = UpdatedQuantity(The(line).quantity,
                                                                         rq.qty)])
      [] rq.pc = "commit" -> CommitLine(db, rq, fail)
      [] rq.pc = "view" -> ReadView(db, rq, fail)
      [] OTHER -> Res(db, rq)

remove_from_cart(db, rq, fail) ==
    CASE rq.pc = "begin" ->
           IF CartOf(db, rq.user) = {} THEN Res(db, Finish(rq, "NotFound"))
           ELSE LET cart == The(CartOf(db, rq.user))
                    line == LineOf(db, cart.id, rq.item)
                IN IF line = {} THEN Res(db, Finish(rq, "NotFound"))
                   ELSE Res(db, [rq EXCEPT !.pc = "commit", !.wkind = "del",
                                           !.wcart = cart.id, !.witem = rq.item])
      [] rq.pc = "commit" ->
           IF fail
           THEN Res(db, Finish(rq, "Internal"))
           ELSE LET cart == The(CartOf(db, rq.user))
                IN Res([db EXCEPT !.cart_items = Flush(db, rq),
                                  !.carts = {IF c.id = cart.id
                                             THEN [c EXCEPT !.updated_at = utcnow(@)]
                                             ELSE c : c \in @}],
                       Finish([rq EXCEPT !.wrote = @ \cup {"cart_items", "carts"}], "OK"))
      [] OTHER -> Res(db, rq)

\* clear_cart failing for a user without a cart, as update and remove do
ClearWithoutCartFails(db, rq) == Res(db, Finish(rq, "NotFound"))

\* if not cart: a new cart is created, "Cart is already empty"
ClearWithoutCart(db, rq) == Res(db, [rq EXCEPT !.pc = "create_cart"])

clear_cart(db, rq, fail) ==
    CASE rq.pc = "begin" ->
           IF CartOf(db, rq.user) = {}
           THEN ClearWithoutCart(db, rq)
           ELSE IF fail THEN Res(db, Finish(rq, "Internal"))
           ELSE Res(db, [rq EXCEPT !.pc = "delete",
                                   !.wcart = The(CartOf(db, rq.user)).id])
      [] rq.pc = "create_cart" -> CreateCart(db, rq, fail, "done")
      \* db.query(CartItem).filter(CartItem.cart_id == cart.id).delete(); db.commit()
      [] rq.pc = "delete" ->
           IF fail THEN Res(db, Finish(rq, "Internal"))
           ELSE Res([db EXCEPT !.cart_items = {l \in @ : l.cart_id # rq.wcart}],
                    Finish([rq EXCEPT !.wrote = @ \cup {"cart_items"}], "OK"))
      [] OTHER -> Res(db, rq)

Handle(db, rq, fail) ==
    CASE rq.op = "signup" -> signup(db, rq, fail)
      [] rq.op = "create_item" -> create_item(db, rq, fail)
      [] rq.op = "get_cart" -> get_cart(db, rq, fail)
      [] rq.op = "add_item" -> add_to_cart(db, rq, fail)
      [] rq.op = "update_item" -> update_cart_item(db, rq, fail)
      [] rq.op = "remove_item" -> remove_from_cart(db, rq, fail)
      [] rq.op = "clear_cart" -> clear_cart(db, rq, fail)
      [] OTHER -> Res(db, rq)

\* a request run alone, with no other request between its steps and no store failure
RECURSIVE RunAlone(_, _)
RunAlone(db, rq) ==
    IF rq.pc = "done" THEN Res(db, rq)
    ELSE LET r == Handle(db, rq, FALSE) IN RunAlone(r.db, r.rq)

\* A pending update or delete addresses its row by primary key: once another
\* request's commit has deleted that row, the key matches no row (until a
\* later insert is given the key, see Reusers).
Stale(rq, db) ==
    IF rq.wkind \in {"upd", "del"} /\ Target(db, rq) = {}
    THEN [rq EXCEPT !.wcart = 0, !.witem = 0]
    ELSE rq

(***************************************************************************)
(* Actions.                                                                *)
(***************************************************************************)
Init ==
    /\ users = {}
    /\ items = {}
    /\ carts = {}
    /\ cart_items = {}
    /\ reqs = [s \in Slots |-> NoReq]

\* the lines a commit has inserted
Inserted(db) ==
    {l \in db.cart_items :
        ~\E m \in cart_items : m.cart_id = l.cart_id /\ m.item_id = l.item_id}

\* The requests other than s whose pending update or delete addresses a row
\* that is deleted, when the commit of s inserts a row: the store may give
\* the new row the primary key of the deleted one (the default store, SQLite,
\* gives a new row one more than the largest key in use).  0: the key is new.
Reusers(s, r) ==
    {0} \cup {t \in Slots \ {s} : /\ Inserted(r.db) # {}
                                  /\ reqs[t].wkind \in {"upd", "del"}
                                  /\ Target(r.db, reqs[t]) = {}}

\* a pending write that addresses the key of a deleted row addresses row l,
\* which was given that key
Rebound(rq, l) == [rq EXCEPT !.wcart = l.cart_id, !.witem = l.item_id]

Apply(s, r) ==
    /\ users' = r.db.users
    /\ items' = r.db.items
    /\ carts' = r.db.carts
    /\ cart_items' = r.db.cart_items
    /\ \E k \in Reusers(s, r) :
          reqs' = [t \in Slots |->
                     IF t = s THEN r.rq
                     ELSE IF t = k THEN Rebound(reqs[t], The(Inserted(r.db)))
                     ELSE Stale(reqs[t], r.db)]

\* get_current_user: the bearer credential resolves to a stored user
UserIds == {u.id : u \in users}

\* a finished request's response leaves before any worker goes on
Responding == \E s \in Slots : reqs[s].pc = "done"

Free(s) == reqs[s].pc = "idle" /\ ~Responding

\* a request arrives at a free worker and runs to its first store access
Arrive(s, rq) ==
    /\ Free(s)
    /\ Apply(s, Handle(DB, rq, FALSE))

\* F: the UserCreate payloads
Signup(s, F) ==
    \E f \in F :
        Arrive(s, [NewReq("signup") EXCEPT !.email = f[1], !.username = f[2]])

\* I: the item ids the catalogue may grow to, and that requests name
\* St, P, C: the stocks, the prices and the categories the payloads carry
CreateItem(s, I, St, P, C) ==
    /\ Cardinality(items) < Cardinality(I)
    /\ \E st \in St, p \in P, c \in C, fail \in BOOLEAN :
         /\ Free(s)
         /\ Apply(s, Handle(DB, [NewReq("create_item") EXCEPT
                                   !.stock = st, !.price = p, !.category = c], fail))

\* A long catalogue: up to MaxOther items of category "b", then items of
\* category "a" until one page of the default limit does not hold them.  A
\* listing depends on how many items each category has, not on the order of
\* their creation.
CreateCatalogueItem(s) ==
    /\ Cardinality(items) < Cardinality(ManyItems)
    /\ \E p \in OnePrice, c \in Categories :
         /\ c = "b" => /\ \A it \in items : it.category = "b"
                        /\ Cardinality(items) < MaxOther
         /\ Arrive(s, [NewReq("create_item") EXCEPT
                          !.stock = MaxStock, !.price = p, !.category = c])

GetItems(s) ==
    \E f \in Filters, fail \in BOOLEAN :
        \E page \in Pages(Matching(DB, f)) :
            /\ Free(s)
            /\ Apply(s, get_items(DB, [NewReq("get_items") EXCEPT !.filter = f], fail, page))

GetCart(s) ==
    \E u \in UserIds, fail \in BOOLEAN :
        /\ Free(s)
        /\ Apply(s, Handle(DB, [NewReq("get_cart") EXCEPT !.user = u], fail))

AddToCart(s, I) ==
    \E u \in UserIds, i \in I, q \in Quantities :
        Arrive(s, [NewReq("add_item") EXCEPT !.user = u, !.item = i, !.qty = q])

UpdateCartItem(s, I) ==
    \E u \in UserIds, i \in I, q \in Quantities :
        Arrive(s, [NewReq("update_item") EXCEPT !.user = u, !.item = i, !.qty = q])

RemoveFromCart(s, I) ==
    \E u \in UserIds, i \in I :
        Arrive(s, [NewReq("remove_item") EXCEPT !.user = u, !.item = i])

ClearCart(s) ==
    \E u \in UserIds, fail \in BOOLEAN :
        /\ Free(s)
        /\ Apply(s, Handle(DB, [NewReq("clear_cart") EXCEPT !.user = u], fail))

\* the next store access of a request in flight
Step(s) ==
    /\ reqs[s].pc \notin {"idle", "done"}
    /\ ~Responding
    /\ \E fail \in BOOLEAN : Apply(s, Handle(DB, reqs[s], fail))

\* the response is sent and the worker is free again
Respond(s) ==
    /\ reqs[s].pc = "done"
    /\ reqs' = [reqs EXCEPT ![s] = NoReq]
    /\ UNCHANGED <<users, items, carts, cart_items>>

\* Several workers (gunicorn.conf.py), their requests interleaved at the store.
Next ==
    \E s \in Slots :
        \/ Respond(s)
        \/ Signup(s, SignupForms)
        \/ CreateItem(s, OneItem, Stocks, OnePrice, OneCategory)
        \/ GetCart(s)
        \/ AddToCart(s, OneItem)
        \/ UpdateCartItem(s, OneItem)
        \/ RemoveFromCart(s, OneItem)
        \/ ClearCart(s)
        \/ Step(s)

Spec == Init /\ [][Next]_vars

\* One worker (main.py: workers = 1 outside production): requests one at a time,
\* over a catalogue of two items.
SeqNext ==
    \/ Respond(1)
    \/ Signup(1, SignupForms)
    \/ CreateItem(1, TwoItems, Stocks, OnePrice, OneCategory)
    \/ GetCart(1)
    \/ AddToCart(1, TwoItems)
    \/ UpdateCartItem(1, TwoItems)
    \/ RemoveFromCart(1, TwoItems)
    \/ ClearCart(1)
    \/ Step(1)

SeqSpec == Init /\ [][SeqNext]_vars

\* One worker, over a catalogue of two items of any of the prices.
ViewNext ==
    \/ Respond(1)
    \/ Signup(1, SignupForms)
    \/ CreateItem(1, TwoItems, Stocks, Prices, OneCategory)
    \/ GetCart(1)
    \/ AddToCart(1, TwoItems)
    \/ UpdateCartItem(1, TwoItems)
    \/ RemoveFromCart(1, TwoItems)
    \/ ClearCart(1)
    \/ Step(1)

ViewSpec == Init /\ [][ViewNext]_vars

\* One worker, the catalogue only: items are created and listed.
CatalogueNext ==
    \/ Respond(1)
    \/ CreateCatalogueItem(1)
    \/ GetItems(1)

CatalogueSpec == Init /\ [][CatalogueNext]_vars

\* Several workers, one user, two items whose stocks may differ: the requests
\* that write cart lines, interleaved at the store.
RaceNext ==
    \E s \in Slots :
        \/ Respond(s)
        \/ Signup(s, OneForm)
        \/ CreateItem(s, TwoItems, TwoStocks, OnePrice, OneCategory)
        \/ AddToCart(s, TwoItems)
        \/ UpdateCartItem(s, TwoItems)
        \/ RemoveFromCart(s, TwoItems)
        \/ Step(s)

RaceSpec == Init /\ [][RaceNext]_vars

(***************************************************************************)
(* The claims.                                                             *)
(***************************************************************************)
Done(s) == reqs[s].pc = "done"

\* no request is in flight and every response is sent: the store is as the
\* finished requests left it
Settled == \A s \in Slots : reqs[s].pc = "idle"

\* the lines of user u's cart for item i, in store db
Lines(db, u, i) ==
    {l \in db.cart_items :
        l.item_id = i /\ \E c \in db.carts : c.user_id = u /\ c.id = l.cart_id}

AddReq(u, i, q) == [NewReq("add_item") EXCEPT !.user = u, !.item = i, !.qty = q]
UpdateReq(u, i, q) == [NewReq("update_item") EXCEPT !.user = u, !.item = i, !.qty = q]
RemoveReq(u, i) == [NewReq("remove_item") EXCEPT !.user = u, !.item = i]

\* C1: from a cart with no line for an item, add_item(q1) then add_item(q2)
\* (q1, q2 > 0, run one after the other) leave exactly one line for the item,
\* of quantity q1+q2, when q1+q2 <= stock_quantity; an add_item whose
\* resulting quantity would exceed stock_quantity, at the first or the second
\* step, returns BadRequest and leaves all cart lines as they were.
C1_AddTwiceSums ==
    \A u \in UserIds, it \in items, q1 \in 1..(MaxStock + 1), q2 \in 1..(MaxStock + 1) :
        (Settled /\ Lines(DB, u, it.id) = {}) =>
            LET r1 == RunAlone(DB, AddReq(u, it.id, q1))
                r2 == RunAlone(r1.db, AddReq(u, it.id, q2))
            IN /\ q1 > it.stock_quantity =>
                    /\ r1.rq.outcome = "BadRequest"
                    /\ r1.db.cart_items = cart_items
               /\ q1 <= it.stock_quantity =>
                    /\ r1.rq.outcome = "OK"
                    /\ {l.quantity : l \in Lines(r1.db, u, it.id)} = {q1}
               /\ (q1 <= it.stock_quantity /\ q1 + q2 > it.stock_quantity) =>
                    /\ r2.rq.outcome = "BadRequest"
                    /\ r2.db.cart_items = r1.db.cart_items
               /\ q1 + q2 <= it.stock_quantity =>
                    /\ r2.rq.outcome = "OK"
                    /\ Cardinality(Lines(r2.db, u, it.id)) = 1
                    /\ {l.quantity : l \in Lines(r2.db, u, it.id)} = {q1 + q2}
                    /\ \A l \in r2.db.cart_items :
                          l \in Lines(r2.db, u, it.id) \/ l \in cart_items

\* an add_item has just succeeded and left a line of two units, and a user has
\* no line yet for an item whose stock allows two adds
C1_Witness ==
    /\ Done(1) /\ reqs[1].op = "add_item" /\ reqs[1].outcome = "OK"
    /\ \E l \in cart_items : l.quantity = 2
    /\ \E u \in UserIds, it \in items :
          Lines(DB, u, it.id) = {} /\ it.stock_quantity >= 2

\* C3: under every interleaving of the cart requests, two concurrent add_item
\* of one user for one item included, each cart holds at most one line per
\* item_id.
C3_OneLinePerItem ==
    \A l1 \in cart_items, l2 \in cart_items :
        (l1.cart_id = l2.cart_id /\ l1.item_id = l2.item_id) => l1 = l2

\* an add_item that saw no line is about to insert one, and the line is there
\* already: a concurrent add_item of the user for that item has committed
C3_Witness ==
    \E s \in Slots :
        /\ reqs[s].op = "add_item" /\ reqs[s].pc = "commit" /\ reqs[s].wkind = "ins"
        /\ \E l \in cart_items : l.cart_id = reqs[s].wcart /\ l.item_id = reqs[s].witem

\* C4: under every interleaving of signup and of the lazy creations in
\* get_cart, add_item and clear_cart, each user owns at most one cart, and a
\* cart that exists is neither deleted nor given another owner or key.
C4_OneCartPerUser ==
    [][/\ \A c1 \in carts', c2 \in carts' : c1.user_id = c2.user_id => c1 = c2
       /\ \A c \in carts : \E d \in carts' : d.id = c.id /\ d.user_id = c.user_id]_vars

\* a request found no cart and is about to create one, and the user's cart is
\* there already: another request has created it meanwhile
C4_Witness ==
    \E s \in Slots :
        /\ reqs[s].pc \in {"create_cart", "commit_cart"}
        /\ \E c \in carts : c.user_id = reqs[s].user

\* C2: a cart write request (add_item, update_item, remove_item, clear_cart)
\* that ends in BadRequest, NotFound or Internal has committed nothing: the
\* carts and the cart lines are as before the request, also when the user had
\* no cart before it.
C2_ErrorCommitsNothing ==
    \A s \in Slots :
        (Done(s) /\ reqs[s].op \in CartWriteOps /\ reqs[s].outcome \in Errors)
            => reqs[s].wrote = {}

\* C5: signup persists the User and its Cart together or neither: a signup
\* that fails leaves no User record of its email behind.
C5_SignupAllOrNothing ==
    \A s \in Slots :
        (Done(s) /\ reqs[s].op = "signup" /\ reqs[s].outcome = "Internal")
            => /\ reqs[s].wrote = {}
               /\ ~\E u \in users : u.email = reqs[s].email

\* C6: a signup whose email or username is registered, which therefore
\* creates no User, fails with Conflict and changes neither users nor carts,
\* also when it is the later of two interleaved signups of one email.
C6_DuplicateSignupIsConflict ==
    \A s \in Slots :
        (/\ Done(s) /\ reqs[s].op = "signup" /\ "users" \notin reqs[s].wrote
         /\ \E u \in users : u.email = reqs[s].email \/ u.username = reqs[s].username)
            => reqs[s].outcome = "Conflict" /\ reqs[s].wrote = {}

\* the rows of cart_items table t for cart c and item i
Row(t, c, i) == {l \in t : l.cart_id = c /\ l.item_id = i}

\* C7: every line has quantity >= 1; in every step, under every interleaving,
\* a line becomes present only by an add_item, changes its quantity only by an
\* add_item or an update_item, and becomes absent only by a remove_item, a
\* clear_cart or an update_item with quantity 0.
C7_LineStateMachine ==
    [][/\ \A l \in cart_items' : l.quantity >= 1
       /\ \A k \in cart_items \cup cart_items' :
            LET old == Row(cart_items, k.cart_id, k.item_id)
                new == Row(cart_items', k.cart_id, k.item_id)
            IN old # new =>
                 \E s \in Slots :
                    /\ reqs'[s].pc # reqs[s].pc
                    /\ (old = {} /\ new # {}) => reqs'[s].op = "add_item"
                    /\ (old # {} /\ new # {}) => reqs'[s].op \in {"add_item", "update_item"}
                    /\ (old # {} /\ new = {}) =>
                          \/ reqs'[s].op \in {"remove_item", "clear_cart"}
                          \/ reqs'[s].op = "update_item" /\ reqs[s].qty = 0]_vars

\* a remove_item has just deleted the only line of the store: a line was
\* added and is absent again
C7_Witness ==
    \E s \in Slots :
        /\ Done(s) /\ reqs[s].op = "remove_item" /\ reqs[s].outcome = "OK"
        /\ cart_items = {} /\ carts # {}

\* C8: from every reachable state, update_item(user, item_id, 0) and
\* remove_item(user, item_id) end with the same kind of outcome and leave the
\* same persisted state, with no line for item_id after a success.
C8_UpdateZeroIsRemove ==
    \A u \in UserIds, i \in TwoItems :
        Settled =>
        LET a == RunAlone(DB, UpdateReq(u, i, 0))
            b == RunAlone(DB, RemoveReq(u, i))
        IN /\ a.rq.outcome = b.rq.outcome
           /\ a.db = b.db
           /\ a.rq.outcome = "OK" => Lines(a.db, u, i) = {}

\* C9: update_item(user, item_id, q) on a present line sets the line's
\* quantity to q, whatever it was, and changes no other line when
\* 0 < q <= stock_quantity; fails with BadRequest and changes nothing when
\* q > stock_quantity; and with q < 0 fails with BadRequest whatever the cart,
\* the line or the item, before any lookup.
C9_UpdateSetsQuantity ==
    \A u \in UserIds, i \in TwoItems, q \in Quantities :
        Settled =>
        LET r == RunAlone(DB, UpdateReq(u, i, q))
        IN /\ q < 0 => r.rq.outcome = "BadRequest" /\ r.db = DB
           /\ \A l \in Lines(DB, u, i), it \in ItemOf(DB, i) :
                /\ (0 < q /\ q <= it.stock_quantity) =>
                      /\ r.rq.outcome = "OK"
                      /\ r.db.cart_items = (cart_items \ {l}) \cup {[l EXCEPT !.quantity = q]}
                /\ q > it.stock_quantity =>
                      /\ r.rq.outcome = "BadRequest"
                      /\ r.db = DB

\* an update_item has just succeeded, a line holds one unit of an item of
\* larger stock, and another line is in the store
C9_Witness ==
    /\ Done(1) /\ reqs[1].op = "update_item" /\ reqs[1].outcome = "OK"
    /\ \E l \in cart_items, it \in items :
          /\ l.item_id = it.id /\ l.quantity = 1 /\ it.stock_quantity > 1
          /\ cart_items # {l}

\* C10 as stated: update_item (with any quantity) and remove_item for an item
\* with no line in the user's cart, or for a user with no cart, fail with
\* NotFound and leave the persisted state unchanged.
C10_AbsentLineIsNotFound ==
    \A u \in UserIds, i \in TwoItems, q \in Quantities :
        (Settled /\ Lines(DB, u, i) = {}) =>
            LET a == RunAlone(DB, UpdateReq(u, i, q))
                b == RunAlone(DB, RemoveReq(u, i))
            IN /\ a.rq.outcome = "NotFound" /\ a.db = DB
               /\ b.rq.outcome = "NotFound" /\ b.db = DB

\* C10 as amended: update_item with a quantity >= 0 and remove_item for an
\* item with no line in the user's cart, or for a user with no cart, fail with
\* NotFound and leave the persisted state unchanged: no line, no cart is made.
C10_AbsentLineIsNotFoundForValidQuantity ==
    \A u \in UserIds, i \in TwoItems, q \in Quantities :
        (Settled /\ Lines(DB, u, i) = {} /\ q >= 0) =>
            LET a == RunAlone(DB, UpdateReq(u, i, q))
                b == RunAlone(DB, RemoveReq(u, i))
            IN /\ a.rq.outcome = "NotFound" /\ a.db = DB
               /\ b.rq.outcome = "NotFound" /\ b.db = DB

\* an update_item has just failed with NotFound having committed nothing,
\* while one user has no cart and another has a cart with a line
C10_Witness ==
    /\ Done(1) /\ reqs[1].op = "update_item" /\ reqs[1].outcome = "NotFound"
    /\ reqs[1].wrote = {}
    /\ \E u \in UserIds : CartOf(DB, u) = {}
    /\ cart_items # {}

ClearReq(u) == [NewReq("clear_cart") EXCEPT !.user = u]

\* the lines of all carts of user u, in store db
LinesOfUser(db, u) ==
    {l \in db.cart_items : \E c \in db.carts : c.user_id = u /\ c.id = l.cart_id}

\* C11: from every state (cart with lines, empty cart, no cart) clear_cart of
\* a user succeeds and leaves the user with a cart of zero lines, the other
\* lines being as they were; a second clear_cart right after succeeds and
\* leaves the state the first one left.
C11_ClearIsIdempotent ==
    \A u \in UserIds :
        Settled =>
        LET a == RunAlone(DB, ClearReq(u))
            b == RunAlone(a.db, ClearReq(u))
        IN /\ a.rq.outcome = "OK"
           /\ Cardinality({c \in a.db.carts : c.user_id = u}) = 1
           /\ LinesOfUser(a.db, u) = {}
           /\ a.db.cart_items = cart_items \ LinesOfUser(DB, u)
           /\ b.rq.outcome = "OK"
           /\ b.db = a.db

\* a clear_cart has just succeeded by creating the cart its user lacked, while
\* another user's cart holds a line
C11_Witness ==
    /\ Done(1) /\ reqs[1].op = "clear_cart" /\ reqs[1].outcome = "OK"
    /\ "carts" \in reqs[1].wrote
    /\ cart_items # {}

\* the quantity of item i in cart c: that of its line, 0 without a line
QuantityIn(c, i) ==
    IF \E l \in cart_items : l.cart_id = c /\ l.item_id = i
    THEN (CHOOSE l \in cart_items : l.cart_id = c /\ l.item_id = i).quantity
    ELSE 0

\* the sum of f[i] over the item ids I
RECURSIVE SumOver(_, _)
SumOver(I, f) ==
    IF I = {} THEN 0
    ELSE LET i == CHOOSE x \in I : TRUE IN f[i] + SumOver(I \ {i}, f)

\* an amount in thousandths lies within half a hundredth of amount r, a
\* whole number of hundredths
IsRoundedTo2(r, amount) ==
    /\ r % 10 = 0
    /\ 2 * (r - amount) <= 10
    /\ 2 * (amount - r) <= 10

\* C12: the cart view in the response of get_cart, of a successful add_item
\* and of a successful update_item has total_items equal to the sum of the
\* quantities of the lines of that cart and total_price equal to the sum
\* of price x quantity over those lines, rounded once to 2 decimals.
C12_ViewTotals ==
    \A s \in Slots :
        (Done(s) /\ reqs[s].outcome = "OK"
                 /\ reqs[s].op \in {"get_cart", "add_item", "update_item"}) =>
            LET v == reqs[s].view
                ids == {it.id : it \in items}
                qty == [i \in ids |-> QuantityIn(v.cart, i)]
                amount == [i \in ids |-> qty[i] * (CHOOSE it \in items : it.id = i).price]
            IN /\ \E c \in carts : c.id = v.cart /\ c.user_id = v.user_id
               /\ v.total_items = SumOver(ids, qty)
               /\ IsRoundedTo2(v.total_price, SumOver(ids, amount))

\* a view has just been returned for a cart of two lines whose amounts, each
\* rounded on its own, add up to another total than their sum rounded once
C12_Witness ==
    \E s \in Slots :
        /\ Done(s) /\ reqs[s].outcome = "OK" /\ reqs[s].op = "add_item"
        /\ Cardinality(reqs[s].view.items) = 2
        /\ \E a \in reqs[s].view.items, b \in reqs[s].view.items :
              /\ a # b
              /\ round(a.subtotal) + round(b.subtotal) # reqs[s].view.total_price

\* C13 as stated: get_items with no filter and the default pagination returns
\* exactly the created items; with only a category filter, exactly the
\* created items of that category.
C13_ListReturnsAllMatching ==
    \A s \in Slots :
        (Done(s) /\ reqs[s].op = "get_items" /\ reqs[s].outcome = "OK") =>
            /\ reqs[s].filter = {} => reqs[s].rows = items
            /\ reqs[s].filter # {} =>
                  reqs[s].rows = {it \in items : it.category \in reqs[s].filter}

\* C13 as amended: with no filter and the default pagination get_items returns
\* exactly the created items while they are at most 100, and 100 of them
\* beyond; with only a non-empty category filter, exactly the created items of
\* that category while they are at most 100, and 100 of them beyond.
C13_ListReturnsAllMatchingUpToLimit ==
    \A s \in Slots :
        (Done(s) /\ reqs[s].op = "get_items" /\ reqs[s].outcome = "OK"
                 /\ reqs[s].filter # {""}) =>
            LET all == IF reqs[s].filter = {} THEN items
                       ELSE {it \in items : it.category \in reqs[s].filter}
            IN /\ reqs[s].rows \subseteq all
               /\ Cardinality(all) <= 100 => reqs[s].rows = all
               /\ Cardinality(all) > 100 => Cardinality(reqs[s].rows) = 100

\* a listing with no filter has just returned 100 of more than 100 items
C13_Witness ==
    /\ Done(1) /\ reqs[1].op = "get_items" /\ reqs[1].outcome = "OK"
    /\ reqs[1].filter = {}
    /\ Cardinality(items) > 100
    /\ Cardinality(reqs[1].rows) = 100
    /\ \E it \in items : it.category = "b"

\* C14: a request of get_items, get_cart, add_item, update_item, remove_item
\* or clear_cart that ends in an internal failure answers with a fixed message
\* that carries nothing of the exception's text, and keeps no uncommitted write.
C14_InternalErrorIsGeneric ==
    \A s \in Slots :
        (Done(s) /\ reqs[s].outcome = "Internal"
                 /\ reqs[s].op \in CartWriteOps \cup {"get_items", "get_cart"}) =>
            /\ \A k \in DOMAIN reqs[s].detail : reqs[s].detail[k] # ExceptionText
            /\ reqs[s].wkind = "none"

GetReq(u) == [NewReq("get_cart") EXCEPT !.user = u]

\* C15: get_cart never ends in NotFound.  For a user without a cart it
\* creates one cart of that user and returns it with no items, total_items 0
\* and total_price 0, changing nothing else; for a user with a cart it
\* changes no cart and no line.
C15_GetCartNeverNotFound ==
    /\ \A s \in Slots :
          (Done(s) /\ reqs[s].op = "get_cart") => reqs[s].outcome \in {"OK", "Internal"}
    /\ \A u \in UserIds :
          Settled =>
          LET r == RunAlone(DB, GetReq(u))
              made == r.db.carts \ carts
          IN /\ r.rq.outcome = "OK"
             /\ r.rq.view.user_id = u
             /\ CartOf(DB, u) = {} =>
                   /\ Cardinality(made) = 1
                   /\ \A c \in made : c.user_id = u /\ r.rq.view.cart = c.id
                   /\ carts \subseteq r.db.carts
                   /\ r.db.cart_items = cart_items
                   /\ r.db.users = users /\ r.db.items = items
                   /\ r.rq.view.items = {}
                   /\ r.rq.view.total_items = 0
                   /\ r.rq.view.total_price = 0
             /\ CartOf(DB, u) # {} => r.db = DB

\* a get_cart has just created the cart its user lacked and returned it
\* empty, while another user's cart holds a line
C15_Witness ==
    /\ Done(1) /\ reqs[1].op = "get_cart" /\ reqs[1].outcome = "OK"
    /\ "carts" \in reqs[1].wrote
    /\ reqs[1].view.items = {}
    /\ cart_items # {}

\* C16: under every interleaving of add_item and update_item, two add_item
\* that read the same quantity before either commits included, every line's
\* quantity is at most the stock_quantity of its item (no request changes an
\* item once it is created).
C16_QuantityWithinStock ==
    \A l \in cart_items :
        \E it \in items : it.id = l.item_id /\ l.quantity <= it.stock_quantity

\* the request that worker s runs in a step: the one that arrives, or the one
\* that was in flight
Stepping(s) == IF reqs[s].pc = "idle" THEN reqs'[s] ELSE reqs[s]

\* the carts and the lines of the users other than u
CartsOfOthers(db, u) == {c \in db.carts : c.user_id # u}
LinesOfOthers(db, u) ==
    {l \in db.cart_items : \E c \in CartsOfOthers(db, u) : c.id = l.cart_id}

\* C17: every step of a cart request (get_cart, add_item, update_item,
\* remove_item, clear_cart) of user u, whether the request goes on to succeed
\* or to fail, leaves the carts and the cart lines of every other user and
\* every Item record as they were.
C17_CartOpsFrame ==
    [][\A s \in Slots :
          (/\ reqs'[s].pc # reqs[s].pc
           /\ Stepping(s).op \in CartWriteOps \cup {"get_cart"}) =>
              /\ items' = items
              /\ CartsOfOthers(DB', Stepping(s).user) = CartsOfOthers(DB, Stepping(s).user)
              /\ LinesOfOthers(DB', Stepping(s).user) = LinesOfOthers(DB, Stepping(s).user)]_vars

=============================================================================
